---- MODULE Spec2Model ----
(***************************************************************************)
(* Model of the typesense-mcp tool handlers: the RAG join pipeline         *)
(* (src/src/tools/rag.py), the search tools                                *)
(* (src/src/typesense_mcp/tools/search.py) and the document sanitizers.    *)
(*                                                                         *)
(* Values that come back from the engine are JSON values, written as       *)
(* tagged tuples <<tag, payload>>.  A Python str that the code converts,   *)
(* escapes, splits or concatenates is a sequence of one-character strings; *)
(* a dict is a sequence of <<key, value>> pairs in insertion order.        *)
(***************************************************************************)
EXTENDS Integers, Sequences, FiniteSets, TLC

VARIABLES pc, op, args, calls, meta_result, meta_hits, doc_ids,
          metadata_by_id, chunk_filter, chunks_result, result, out,
          san_doc, san_kept, replies, client, frames, invocations

vars == <<pc, op, args, calls, meta_result, meta_hits, doc_ids,
          metadata_by_id, chunk_filter, chunks_result, result, out,
          san_doc, san_kept, replies, client, frames, invocations>>

(***************************************************************************)
(* Bounds of the model.                                                    *)
(***************************************************************************)
MaxHits == 3

MaxChunks == 2

(***************************************************************************)
(* JSON values.                                                            *)
(***************************************************************************)
None == <<"none">>

S(chars) == <<"str", chars>>

I(n) == <<"int", n>>

F(n) == <<"float", n>>

L(elems) == <<"list", elems>>

D(pairs) == <<"dict", pairs>>

Tag(v) == v[1]

Payload(v) == v[2]

Rep(x, n) == [i \in 1..n |-> x]

Min(a, b) == IF a < b THEN a ELSE b

Max(a, b) == IF a > b THEN a ELSE b

RECURSIVE SumSeq(_)
SumSeq(s) == IF s = <<>> THEN 0 ELSE Head(s) + SumSeq(Tail(s))

\* dict.get(key, default) on a sequence of <<key, value>> pairs
DictHas(pairs, key) == \E i \in 1..Len(pairs) : pairs[i][1] = key

DictGet(pairs, key, default) ==
    IF DictHas(pairs, key)
    THEN pairs[CHOOSE i \in 1..Len(pairs) : pairs[i][1] = key][2]
    ELSE default

\* hit.get("document", {}) : the pairs of the hit's document
HitDocument(hit) == Payload(DictGet(Payload(hit), "document", D(<<>>)))

\* result.get("hits", [])
ResultHits(res) == Payload(DictGet(Payload(res), "hits", L(<<>>)))

(***************************************************************************)
(* str() of the scalar values a link field can hold.                       *)
(***************************************************************************)
Digit(d) == CASE d = 0 -> "0" [] d = 1 -> "1" [] d = 2 -> "2" [] d = 3 -> "3"
              [] d = 4 -> "4" [] d = 5 -> "5" [] d = 6 -> "6" [] d = 7 -> "7"
              [] d = 8 -> "8" [] d = 9 -> "9"

RECURSIVE NatToChars(_)
NatToChars(n) == IF n < 10 THEN <<Digit(n)>>
                 ELSE NatToChars(n \div 10) \o <<Digit(n % 10)>>

IntToChars(n) == IF n < 0 THEN <<"-">> \o NatToChars(-n) ELSE NatToChars(n)

Str(v) == CASE Tag(v) = "str" -> Payload(v)
            [] Tag(v) = "int" -> IntToChars(Payload(v))
            [] Tag(v) = "none" -> <<"N", "o", "n", "e">>

(***************************************************************************)
(* The bulk-field filters, one per place a document is surfaced.           *)
(***************************************************************************)
IsNumber(v) == Tag(v) \in {"int", "float"}

IsList(v) == Tag(v) = "list"

\* rag.py: isinstance(v, list) and len(v) > 50 and v and isinstance(v[0], (int, float))
RagDropsField(v) ==
    /\ IsList(v)
    /\ Len(Payload(v)) > 50
    /\ Payload(v) # <<>>
    /\ IsNumber(Payload(v)[1])

\* collections.py keeps: not isinstance(v, list) or not (v and isinstance(v[0], (int, float))) or len(v) < 50
AnalyzeKeepsField(v) ==
    \/ ~IsList(v)
    \/ ~(Payload(v) # <<>> /\ IsNumber(Payload(v)[1]))
    \/ Len(Payload(v)) < 50

RagKeepPair(kv) == ~RagDropsField(kv[2])

AnalyzeKeepPair(kv) == AnalyzeKeepsField(kv[2])

CleanMetadata(doc) == SelectSeq(doc, RagKeepPair)

CleanChunk(doc) == SelectSeq(doc, RagKeepPair)

CleanDocumentChunk(doc) == SelectSeq(doc, RagKeepPair)

CleanSample(doc) == SelectSeq(doc, AnalyzeKeepPair)

(***************************************************************************)
(* Python dict writes on a sequence of <<key, value>> pairs.               *)
(***************************************************************************)
DictSet(pairs, key, value) ==
    IF DictHas(pairs, key)
    THEN [i \in 1..Len(pairs) |->
            IF pairs[i][1] = key THEN <<key, value>> ELSE pairs[i]]
    ELSE Append(pairs, <<key, value>>)

\* params[key] = value only when the guard holds ("if filter_by: ...")
SetIf(guard, pairs, key, value) ==
    IF guard THEN DictSet(pairs, key, value) ELSE pairs

(***************************************************************************)
(* The engine, seen through TypesenseClientManager.search: a response      *)
(* carries at most per_page hits (none when per_page is not positive).     *)
(***************************************************************************)
HitLists(hitSet, per_page, bound) ==
    UNION {[1..n -> hitSet] : n \in 0..Min(bound, Max(per_page, 0))}

SearchResponses(hitSet, per_page, bound) ==
    {D(<< <<"found", I(Len(hs))>>, <<"hits", L(hs)>> >>) :
        hs \in HitLists(hitSet, per_page, bound)}

GatewaySearch(collection, params) ==
    [method |-> "search", collection |-> collection, params |-> params]

\* TypesenseClientManager._client before the first use of the client property
ClientUnset == "unset"

\* TypesenseClientManager.client: creates the client on first use, keeps it
ClientProperty(c) == IF c = ClientUnset THEN "typesense.Client" ELSE c

\* what a gateway call can raise instead of answering
GatewayErrors == {"Timeout", "ObjectNotFound"}

Raise(error) == <<"raise", error>>

\* no handler catches what a gateway call raises: the caller gets the error
PropagateAsEmptyResult(error) ==
    << <<"found", 0>>, <<"total_chunks", 0>>, <<"results", <<>>>> >>

Propagate(error) == Raise(error)

Hit(doc) == D(<< <<"document", D(doc)>> >>)

(***************************************************************************)
(* rag_search_and_retrieve_chunks, step by step.                           *)
(***************************************************************************)
\* Step 1: the metadata query parameters
MetaParams(query, query_by, per_page, filter_by) ==
    SetIf(filter_by # <<>>,
          << <<"q", query>>, <<"query_by", query_by>>,
             <<"per_page", Min(per_page, 50)>> >>,
          "filter_by", filter_by)

\* Step 2: doc.get(doc_id_field) of one metadata hit
HitLink(hit, doc_id_field) == DictGet(HitDocument(hit), doc_id_field, None)

\* the "did is not None" test dropped
RECURSIVE ExtractDocIdsNoSkip(_, _)
ExtractDocIdsNoSkip(hits, doc_id_field) ==
    IF hits = <<>> THEN <<>>
    ELSE <<Str(HitLink(Head(hits), doc_id_field))>>
            \o ExtractDocIdsNoSkip(Tail(hits), doc_id_field)

RECURSIVE ExtractDocIds(_, _)
ExtractDocIds(hits, doc_id_field) ==
    IF hits = <<>> THEN <<>>
    ELSE LET did == HitLink(Head(hits), doc_id_field)
         IN  (IF did # None THEN <<Str(did)>> ELSE <<>>)
                \o ExtractDocIds(Tail(hits), doc_id_field)

RECURSIVE StoreMetadata(_, _, _, _)
StoreMetadata(acc, hits, doc_id_field, include_metadata) ==
    IF hits = <<>> THEN acc
    ELSE LET doc == HitDocument(Head(hits))
             did == HitLink(Head(hits), doc_id_field)
             next == IF did # None /\ include_metadata
                     THEN DictSet(acc, Str(did), CleanMetadata(doc))
                     ELSE acc
         IN  StoreMetadata(next, Tail(hits), doc_id_field, include_metadata)

\* the first early return forgotten
MetaOutcomeNoEmptyCheck(hits, ids) ==
    IF hits # <<>> /\ ids = <<>> THEN "no_link" ELSE "join"

\* the two early returns: "if not meta_hits" and "if not doc_ids"
MetaOutcome(hits, ids) ==
    IF hits = <<>> THEN "no_hits"
    ELSE IF ids = <<>> THEN "no_link"
    ELSE "join"

\* Step 3: the chunk filter
\* a field name is one character; as a string it is the one-element sequence
Chars(name) == <<name>>

RECURSIVE Replace(_, _, _)
Replace(chars, old, new) ==
    IF chars = <<>> THEN <<>>
    ELSE (IF Head(chars) = old THEN new ELSE <<Head(chars)>>)
            \o Replace(Tail(chars), old, new)

\* did.replace("`", "\\`"); the backtick character is the atom Backtick
Backtick == "BACKTICK"

Backslash == "\\"

\* the ids joined without escaping
EscapeIdUnescaped(did) == did

EscapeId(did) == Replace(did, Backtick, <<Backslash, Backtick>>)

RECURSIVE Join(_, _)
Join(strs, sep) ==
    IF strs = <<>> THEN <<>>
    ELSE IF Len(strs) = 1 THEN Head(strs)
    ELSE Head(strs) \o sep \o Join(Tail(strs), sep)

EscapedIds(ids) == [i \in 1..Len(ids) |-> EscapeId(ids[i])]

ChunkFilter(doc_id_field, ids, chunks_filter_by) ==
    LET membership == Chars(doc_id_field) \o <<":", "[">>
                        \o Join(EscapedIds(ids), <<",">>) \o <<"]">>
    IN  IF chunks_filter_by # <<>>
        THEN membership \o <<" ", "&", "&", " ">> \o chunks_filter_by
        ELSE membership

\* the page size computed from the distinct ids instead of the linked hits
ChunkPerPageDistinctIds(chunks_per_doc, ids) ==
    Min(chunks_per_doc * Cardinality({ids[i] : i \in 1..Len(ids)}), 250)

ChunkPerPage(chunks_per_doc, ids) == Min(chunks_per_doc * Len(ids), 250)

ChunkParams(chunk_content_field, filter, chunks_per_doc, ids, chunks_sort_by, exclude_fields) ==
    SetIf(exclude_fields # "",
          SetIf(chunks_sort_by # "",
                << <<"q", "*">>, <<"query_by", chunk_content_field>>,
                   <<"filter_by", filter>>,
                   <<"per_page", ChunkPerPage(chunks_per_doc, ids)>> >>,
                "sort_by", chunks_sort_by),
          "exclude_fields", exclude_fields)

\* Step 3: one filtered chunk query for all the linked ids
ChunkQueriesPerDocument(a, filter, ids) ==
    [i \in 1..Len(ids) |->
        GatewaySearch("chunks",
            ChunkParams(a.chunk_content_field,
                        ChunkFilter(a.doc_id_field, <<ids[i]>>, a.chunks_filter_by),
                        a.chunks_per_doc, <<ids[i]>>, a.chunks_sort_by,
                        a.exclude_fields))]

ChunkQueries(a, filter, ids) ==
    << GatewaySearch("chunks",
           ChunkParams(a.chunk_content_field, filter, a.chunks_per_doc, ids,
                       a.chunks_sort_by, a.exclude_fields)) >>

\* Step 4: {did: [] for did in doc_ids}, then one append per matching chunk hit
RECURSIVE SeedChunksByDoc(_)
SeedChunksByDoc(ids) ==
    IF ids = <<>> THEN <<>>
    ELSE LET rest == SeedChunksByDoc(Tail(ids))
         IN  <<<<Head(ids), <<>>>>>> \o
                SelectSeq(rest, LAMBDA kv : kv[1] # Head(ids))

ChunkLink(hit, doc_id_field) ==
    Str(DictGet(HitDocument(hit), doc_id_field, S(<<>>)))

RECURSIVE OrganizeChunks(_, _, _)
OrganizeChunks(acc, hits, doc_id_field) ==
    IF hits = <<>> THEN acc
    ELSE LET doc == HitDocument(Head(hits))
             did == ChunkLink(Head(hits), doc_id_field)
             next == IF DictHas(acc, did)
                     THEN DictSet(acc, did,
                             Append(DictGet(acc, did, <<>>), CleanChunk(doc)))
                     ELSE acc
         IN  OrganizeChunks(next, Tail(hits), doc_id_field)

ChunksByDoc(ids, hits, doc_id_field) ==
    OrganizeChunks(SeedChunksByDoc(ids), hits, doc_id_field)

\* Step 5: one entry per element of doc_ids
ResultEntry(did, include_metadata, metadata, chunks_by_doc) ==
    LET chunks == DictGet(chunks_by_doc, did, <<>>)
    IN  SetIf(include_metadata /\ DictHas(metadata, did),
              << <<"doc_id", did>> >>, "metadata",
              DictGet(metadata, did, <<>>))
            \o << <<"chunks", chunks>>, <<"chunk_count", Len(chunks)>> >>

BuildResults(ids, include_metadata, metadata, chunks_by_doc) ==
    [i \in 1..Len(ids) |->
        ResultEntry(ids[i], include_metadata, metadata, chunks_by_doc)]

ChunkCounts(results) ==
    [i \in 1..Len(results) |-> DictGet(results[i], "chunk_count", 0)]

\* total_chunks counting the entries instead of their chunks
TotalChunksAsEntryCount(results) == Len(results)

TotalChunks(results) == SumSeq(ChunkCounts(results))

JoinOutput(results) ==
    << <<"found", Len(results)>>,
       <<"total_chunks", TotalChunks(results)>>,
       <<"results", results>> >>

NoHitsOutput ==
    << <<"found", 0>>,
       <<"message", "No matching documents found in metadata collection.">>,
       <<"results", <<>>>> >>

\* the second early return reporting found = 0 like the first
NoLinkOutputZero(hits) ==
    << <<"found", 0>>,
       <<"message", "Documents found but none have the link field.">>,
       <<"results", <<>>>> >>

NoLinkOutput(hits) ==
    << <<"found", Len(hits)>>,
       <<"message", "Documents found but none have the link field.">>,
       <<"results", <<>>>> >>

(***************************************************************************)
(* The search tools of search.py and rag.py: parameter builders.           *)
(***************************************************************************)
Whitespace == {" "}

RECURSIVE LStrip(_)
LStrip(chars) ==
    IF chars # <<>> /\ Head(chars) \in Whitespace THEN LStrip(Tail(chars))
    ELSE chars

RECURSIVE RStrip(_)
RStrip(chars) ==
    IF chars # <<>> /\ chars[Len(chars)] \in Whitespace
    THEN RStrip(SubSeq(chars, 1, Len(chars) - 1))
    ELSE chars

Strip(chars) == RStrip(LStrip(chars))

\* str.split(sep): always at least one piece
RECURSIVE Split(_, _)
Split(chars, sep) ==
    IF \E i \in 1..Len(chars) : chars[i] = sep
    THEN LET i == CHOOSE j \in 1..Len(chars) :
                    /\ chars[j] = sep
                    /\ \A k \in 1..(j - 1) : chars[k] # sep
         IN  <<SubSeq(chars, 1, i - 1)>>
                \o Split(SubSeq(chars, i + 1, Len(chars)), sep)
    ELSE <<chars>>

\* repr of a float given in tenths: 7 is 0.7, 10 is 1.0
FloatToChars(tenths) ==
    IntToChars(tenths \div 10) \o <<".">> \o IntToChars(tenths % 10)

DefaultAlpha == 3

\* f"{field}:([], k:{per_page * 5}, alpha:{alpha})"
SynthesizedVectorQuery(field, per_page, alpha) ==
    field \o <<":", "(", "[", "]", ",", " ", "k", ":">>
          \o IntToChars(per_page * 5)
          \o <<",", " ", "a", "l", "p", "h", "a", ":">>
          \o FloatToChars(alpha) \o <<")">>

QueryByFields(query_by) ==
    LET pieces == Split(query_by, ",")
    IN  [i \in 1..Len(pieces) |-> Strip(pieces[i])]

WithVectorQueryOnLastField(params, a) ==
    IF a.vector_query # <<>>
    THEN DictSet(params, "vector_query", a.vector_query)
    ELSE IF a.alpha # DefaultAlpha
    THEN LET fields == QueryByFields(a.query_by)
         IN  DictSet(params, "vector_query",
                SynthesizedVectorQuery(fields[Len(fields)], a.per_page, a.alpha))
    ELSE params

\* the alpha-derived clause taking precedence over an explicit vector query
WithVectorQueryAlphaFirst(params, a) ==
    IF a.alpha # DefaultAlpha
    THEN DictSet(params, "vector_query",
            SynthesizedVectorQuery(Head(QueryByFields(a.query_by)),
                                   a.per_page, a.alpha))
    ELSE IF a.vector_query # <<>>
    THEN DictSet(params, "vector_query", a.vector_query)
    ELSE params

WithVectorQuery(params, a) ==
    IF a.vector_query # <<>>
    THEN DictSet(params, "vector_query", a.vector_query)
    ELSE IF a.alpha # DefaultAlpha
    THEN DictSet(params, "vector_query",
            SynthesizedVectorQuery(Head(QueryByFields(a.query_by)),
                                   a.per_page, a.alpha))
    ELSE params

WithGroupUnguarded(params, group_by, group_limit) ==
    DictSet(DictSet(params, "group_by", group_by), "group_limit", group_limit)

\* the group field attached without its limit
WithGroupNoLimit(params, group_by, group_limit) ==
    IF group_by # "" THEN DictSet(params, "group_by", group_by) ELSE params

WithGroup(params, group_by, group_limit) ==
    IF group_by # ""
    THEN DictSet(DictSet(params, "group_by", group_by),
                 "group_limit", group_limit)
    ELSE params

HybridParams(a) ==
    LET p0 == << <<"q", a.query>>, <<"query_by", a.query_by>>,
                 <<"per_page", Min(a.per_page, 250)>>, <<"page", a.page>>,
                 <<"rerank_hybrid_matches", a.rerank_hybrid_matches>> >>
        p1 == SetIf(a.filter_by # <<>>, p0, "filter_by", a.filter_by)
        p2 == SetIf(a.sort_by # "", p1, "sort_by", a.sort_by)
        p3 == WithVectorQuery(p2, a)
        p4 == WithGroup(p3, a.group_by, a.group_limit)
        p5 == IF a.facet_by # ""
              THEN DictSet(DictSet(p4, "facet_by", a.facet_by),
                           "max_facet_values", a.max_facet_values)
              ELSE p4
        p6 == SetIf(a.prefix # "true", p5, "prefix", a.prefix)
        p7 == SetIf(a.exclude_fields # "", p6, "exclude_fields", a.exclude_fields)
        p8 == SetIf(a.include_fields # "", p7, "include_fields", a.include_fields)
    IN  SetIf(a.highlight_fields # "", p8, "highlight_fields", a.highlight_fields)

KeywordParams(a) ==
    LET p0 == << <<"q", a.query>>, <<"query_by", a.query_by>>,
                 <<"per_page", Min(a.per_page, 250)>>, <<"page", a.page>> >>
        p1 == SetIf(a.filter_by # <<>>, p0, "filter_by", a.filter_by)
        p2 == SetIf(a.sort_by # "", p1, "sort_by", a.sort_by)
        p3 == SetIf(a.facet_by # "", p2, "facet_by", a.facet_by)
        p4 == WithGroup(p3, a.group_by, a.group_limit)
        p5 == SetIf(a.include_fields # "", p4, "include_fields", a.include_fields)
    IN  SetIf(a.exclude_fields # "", p5, "exclude_fields", a.exclude_fields)

DefaultCacheTtl == 86400

NaturalLanguageParams(a) ==
    LET p0 == << <<"q", a.query>>, <<"query_by", a.query_by>>,
                 <<"nl_query", TRUE>>, <<"nl_model_id", a.nl_model_id>>,
                 <<"per_page", Min(a.per_page, 250)>>, <<"page", a.page>> >>
        p1 == SetIf(a.filter_by # <<>>, p0, "filter_by", a.filter_by)
        p2 == SetIf(a.sort_by # "", p1, "sort_by", a.sort_by)
        p3 == SetIf(a.nl_query_debug, p2, "nl_query_debug", TRUE)
        p4 == SetIf(a.nl_query_prompt_cache_ttl # DefaultCacheTtl, p3,
                    "nl_query_prompt_cache_ttl", a.nl_query_prompt_cache_ttl)
        p5 == SetIf(a.include_fields # "", p4, "include_fields", a.include_fields)
        p6 == SetIf(a.exclude_fields # "", p5, "exclude_fields", a.exclude_fields)
    IN  SetIf(a.facet_by # "", p6, "facet_by", a.facet_by)

DefaultCommonPerPage == 10

MultiSearchCommon(a) ==
    LET c1 == SetIf(a.common_query_by # <<>>, <<>>, "query_by", a.common_query_by)
        c2 == SetIf(a.common_filter_by # <<>>, c1, "filter_by", a.common_filter_by)
    IN  SetIf(a.common_per_page # DefaultCommonPerPage, c2,
              "per_page", a.common_per_page)

\* rag_hybrid_chunk_search(..., rerank_hybrid_matches: bool = True, ...)
DefaultRerankHybridMatches == TRUE

\* the parameters of a plain keyword search: no rerank flag
RagHybridParamsNoRerank(a) ==
    LET p0 == << <<"q", a.query>>, <<"query_by", a.query_by>>,
                 <<"per_page", Min(a.per_page, 250)>> >>
        p1 == SetIf(a.filter_by # <<>>, p0, "filter_by", a.filter_by)
        p2 == SetIf(a.exclude_fields # "", p1, "exclude_fields", a.exclude_fields)
        p3 == SetIf(a.include_fields # "", p2, "include_fields", a.include_fields)
    IN  WithGroup(p3, a.group_by_doc, a.group_limit)

RagHybridParams(a) ==
    LET p0 == << <<"q", a.query>>, <<"query_by", a.query_by>>,
                 <<"per_page", Min(a.per_page, 250)>>,
                 <<"rerank_hybrid_matches", a.rerank_hybrid_matches>> >>
        p1 == SetIf(a.filter_by # <<>>, p0, "filter_by", a.filter_by)
        p2 == SetIf(a.exclude_fields # "", p1, "exclude_fields", a.exclude_fields)
        p3 == SetIf(a.include_fields # "", p2, "include_fields", a.include_fields)
    IN  WithGroup(p3, a.group_by_doc, a.group_limit)

\* f"{doc_id_field}:={doc_id}", then " && " and the extra filter
DocumentChunksFilter(doc_id_field, doc_id, filter_by) ==
    LET own == Chars(doc_id_field) \o <<":", "=">> \o doc_id
    IN  IF filter_by # <<>>
        THEN own \o <<" ", "&", "&", " ">> \o filter_by
        ELSE own

DocumentChunksParams(a) ==
    LET p0 == << <<"q", "*">>, <<"query_by", Chars(a.doc_id_field)>>,
                 <<"filter_by",
                   DocumentChunksFilter(a.doc_id_field, a.doc_id, a.filter_by)>>,
                 <<"per_page", Min(a.per_page, 250)>> >>
        p1 == SetIf(a.sort_by # "", p0, "sort_by", a.sort_by)
        p2 == SetIf(a.exclude_fields # "", p1, "exclude_fields", a.exclude_fields)
    IN  SetIf(a.include_fields # "", p2, "include_fields", a.include_fields)


(***************************************************************************)
(* Result shaping.                                                         *)
(***************************************************************************)
\* Python truthiness of a JSON value
Truthy(v) == CASE Tag(v) = "none" -> FALSE
               [] Tag(v) \in {"str", "list", "dict"} -> Payload(v) # <<>>
               [] Tag(v) \in {"int", "float"} -> Payload(v) # 0
               [] Tag(v) = "bool" -> Payload(v)

\* "if key in src: dst[key] = src[key]"
CopyIfPresent(dst, src, key) ==
    SetIf(DictHas(src, key), dst, key, DictGet(src, key, None))

\* "if src.get(key): dst[key] = src[key]"
CopyIfTruthy(dst, src, key) ==
    SetIf(Truthy(DictGet(src, key, None)), dst, key, DictGet(src, key, None))

\* highlights always set, with an empty list when the hit has none
FormatHitWithPlaceholders(hit) ==
    LET h == Payload(hit)
        f0 == << <<"document", DictGet(h, "document", D(<<>>))>> >>
        f1 == CopyIfPresent(f0, h, "text_match_info")
        f2 == CopyIfPresent(f1, h, "vector_distance")
        f3 == DictSet(f2, "highlights", DictGet(h, "highlights", L(<<>>)))
    IN  CopyIfPresent(f3, h, "hybrid_search_info")

FormatHit(hit) ==
    LET h == Payload(hit)
        f0 == << <<"document", DictGet(h, "document", D(<<>>))>> >>
        f1 == CopyIfPresent(f0, h, "text_match_info")
        f2 == CopyIfPresent(f1, h, "vector_distance")
        f3 == CopyIfTruthy(f2, h, "highlights")
    IN  CopyIfPresent(f3, h, "hybrid_search_info")

FormatSearchResult(res) ==
    LET r == Payload(res)
        hits == ResultHits(res)
        o0 == << <<"found", DictGet(r, "found", I(0))>>,
                 <<"page", DictGet(r, "page", I(1))>>,
                 <<"search_time_ms", DictGet(r, "search_time_ms", I(0))>>,
                 <<"hits", [i \in 1..Len(hits) |-> FormatHit(hits[i])]>> >>
        o1 == CopyIfTruthy(o0, r, "facet_counts")
        o2 == CopyIfTruthy(o1, r, "grouped_hits")
    IN  CopyIfTruthy(o2, r, "parsed_nl_query")

\* the chunk entries of rag_hybrid_chunk_search
FormatChunkHit(hit) ==
    LET h == Payload(hit)
        e0 == << <<"document", DictGet(h, "document", D(<<>>))>> >>
        e1 == CopyIfPresent(e0, h, "vector_distance")
        e2 == CopyIfPresent(e1, h, "text_match_info")
    IN  CopyIfPresent(e2, h, "hybrid_search_info")

FormatHybridChunks(res) ==
    LET r == Payload(res)
        hits == ResultHits(res)
        o0 == << <<"found", DictGet(r, "found", I(0))>>,
                 <<"search_time_ms", DictGet(r, "search_time_ms", I(0))>> >>
    IN  IF Truthy(DictGet(r, "grouped_hits", None))
        THEN DictSet(o0, "grouped_hits", DictGet(r, "grouped_hits", None))
        ELSE DictSet(o0, "chunks",
                     [i \in 1..Len(hits) |-> FormatChunkHit(hits[i])])

FormatDocumentChunks(doc_id, res) ==
    LET hits == ResultHits(res)
        chunks == [i \in 1..Len(hits) |->
                      CleanDocumentChunk(HitDocument(hits[i]))]
    IN  << <<"doc_id", doc_id>>, <<"chunk_count", Len(chunks)>>,
           <<"total_found", DictGet(Payload(res), "found", I(0))>>,
           <<"chunks", chunks>> >>

\* the sub-results taken last to first
FormatMultiSearchReversed(res) ==
    LET subs == Payload(DictGet(Payload(res), "results", L(<<>>)))
        n == Len(subs)
    IN  << <<"results",
             [i \in 1..n |->
                 << <<"search_index", i - 1>> >>
                    \o FormatSearchResult(subs[n + 1 - i])]>> >>

FormatMultiSearch(res) ==
    LET subs == Payload(DictGet(Payload(res), "results", L(<<>>)))
    IN  << <<"results",
             [i \in 1..Len(subs) |->
                 << <<"search_index", i - 1>> >> \o FormatSearchResult(subs[i])]>> >>


(***************************************************************************)
(* Inputs: the documents the engine holds and the arguments callers pass.  *)
(***************************************************************************)
Embedding == L(Rep(F(1), 51))

MetaDocSet ==
    { << <<"t", S(<<"x">>)>> >>,
      << <<"d", None>> >>,
      << <<"d", S(<<"a">>)>> >>,
      << <<"d", S(<<"x", Backtick, "y">>)>>, <<"e", Embedding>> >>,
      << <<"d", I(1)>> >> }

ChunkDocSet ==
    { << <<"c", S(<<"x">>)>> >>,
      << <<"d", S(<<"a">>)>>, <<"c", S(<<"x">>)>> >>,
      << <<"d", S(<<"x", Backtick, "y">>)>>, <<"e", Embedding>> >>,
      << <<"d", S(<<"1">>)>> >> }

MetaHitSet == {Hit(doc) : doc \in MetaDocSet}

ChunkHitSet == {Hit(doc) : doc \in ChunkDocSet}

RagPerPageSet == {0, 99}

LinkFieldSet == {"d", "k"}

FilterSet == {<<>>, <<"k", ":", "=", "1">>}

OptionalStringSet == {"", "x"}

\* rag_search_and_retrieve_chunks: one family varies what the join depends
\* on, the other gives the optional pass-through parameters
RagArgs ==
    { [query |-> "q", query_by |-> <<"t">>, doc_id_field |-> field,
       chunk_content_field |-> <<"c">>, filter_by |-> <<>>,
       per_page |-> per_page, chunks_per_doc |-> 100,
       include_metadata |-> o[1], chunks_sort_by |-> "",
       chunks_filter_by |-> o[2], exclude_fields |-> ""] :
         field \in LinkFieldSet, per_page \in RagPerPageSet,
         o \in { <<TRUE, <<>>>>, <<FALSE, <<>>>>,
                 <<TRUE, <<"k", ":", "=", "1">>>> } }
    \cup
    { [query |-> "q", query_by |-> <<"t">>, doc_id_field |-> "d",
       chunk_content_field |-> <<"c">>, filter_by |-> o[1], per_page |-> 1,
       chunks_per_doc |-> 1, include_metadata |-> TRUE,
       chunks_sort_by |-> o[2], chunks_filter_by |-> <<>>,
       exclude_fields |-> o[3]] :
         o \in { <<<<"k", ":", "=", "1">>, "", "">>, <<<<>>, "x", "">>,
                 <<<<>>, "", "x">>, <<<<"k", ":", "=", "1">>, "x", "x">> } }

MaxSearchHits == 2

PerPageSet == {-5, 0, 10, 250, 251, 99999}

QueryBySet == {<<>>, <<"t">>, <<"t", ",", "e">>, <<" ", "t", " ", ",", "e">>}

AlphaSet == {0, 3, 7}

VectorQuerySet == {<<>>, <<"e", ":", "(", "[", "]", ")">>}

\* hybrid_search: one family varies what the vector query depends on, the
\* other which optional parameters are given
HybridArgs ==
    [query : {"q"}, query_by : QueryBySet, filter_by : {<<>>}, sort_by : {""},
     per_page : PerPageSet, page : {1}, vector_query : VectorQuerySet,
     alpha : AlphaSet, rerank_hybrid_matches : {TRUE}, group_by : {""},
     group_limit : {3}, facet_by : {""}, max_facet_values : {10},
     prefix : {"true"}, exclude_fields : {""}, include_fields : {""},
     highlight_fields : {""}]
    \cup
    [query : {"q"}, query_by : {<<"t", ",", "e">>}, filter_by : FilterSet,
     sort_by : OptionalStringSet, per_page : {10}, page : {1},
     vector_query : {<<>>}, alpha : {DefaultAlpha},
     rerank_hybrid_matches : BOOLEAN, group_by : OptionalStringSet,
     group_limit : {3}, facet_by : OptionalStringSet, max_facet_values : {10},
     prefix : {"true", "false"}, exclude_fields : OptionalStringSet,
     include_fields : OptionalStringSet, highlight_fields : OptionalStringSet]

KeywordArgs ==
    [query : {"q"}, query_by : {<<>>, <<"t">>}, filter_by : {<<>>},
     sort_by : {""}, per_page : PerPageSet, page : {1}, facet_by : {""},
     group_by : {""}, group_limit : {3}, include_fields : {""},
     exclude_fields : {""}]
    \cup
    [query : {"q"}, query_by : {<<"t">>}, filter_by : FilterSet,
     sort_by : OptionalStringSet, per_page : {10}, page : {1},
     facet_by : OptionalStringSet, group_by : OptionalStringSet,
     group_limit : {3}, include_fields : OptionalStringSet,
     exclude_fields : OptionalStringSet]

NaturalLanguageArgs ==
    [query : {"q"}, query_by : {<<"t">>}, nl_model_id : {"m"},
     filter_by : {<<>>}, sort_by : {""}, per_page : PerPageSet, page : {1},
     nl_query_debug : {FALSE}, nl_query_prompt_cache_ttl : {DefaultCacheTtl},
     include_fields : {""}, exclude_fields : {""}, facet_by : {""}]
    \cup
    [query : {"q"}, query_by : {<<"t">>}, nl_model_id : {"m"},
     filter_by : FilterSet, sort_by : OptionalStringSet, per_page : {10},
     page : {1}, nl_query_debug : BOOLEAN,
     nl_query_prompt_cache_ttl : {DefaultCacheTtl, 60},
     include_fields : OptionalStringSet, exclude_fields : OptionalStringSet,
     facet_by : OptionalStringSet]

RagHybridArgs ==
    [query : {"q"}, query_by : {<<>>, <<"c", ",", "e">>}, filter_by : {<<>>},
     per_page : PerPageSet, alpha : {DefaultAlpha},
     rerank_hybrid_matches : {DefaultRerankHybridMatches},
     group_by_doc : {""}, group_limit : {5},
     exclude_fields : {""}, include_fields : {""}]
    \cup
    [query : {"q"}, query_by : {<<"c", ",", "e">>}, filter_by : FilterSet,
     per_page : {20}, alpha : AlphaSet, rerank_hybrid_matches : BOOLEAN,
     group_by_doc : OptionalStringSet, group_limit : {5},
     exclude_fields : OptionalStringSet, include_fields : OptionalStringSet]

DocumentChunksArgs ==
    [doc_id : {<<"a">>}, doc_id_field : {"d"}, sort_by : {""},
     filter_by : {<<>>}, per_page : PerPageSet, exclude_fields : {""},
     include_fields : {""}]
    \cup
    [doc_id : {<<"a">>, <<"1">>}, doc_id_field : LinkFieldSet,
     sort_by : OptionalStringSet, filter_by : FilterSet, per_page : {100},
     exclude_fields : OptionalStringSet, include_fields : OptionalStringSet]

\* searches_json: malformed text, or the text of a list of search objects
BadJson == <<"malformed">>

JsonText(value) == <<"json", value>>

IsJson(text) == text[1] = "json"

JsonLoads(text) == text[2]

SearchObjectSet ==
    { << <<"collection", "products">>, <<"q", "q">> >>,
      << <<"collection", "reviews">>, <<"q", "q">>, <<"per_page", 500>> >> }

MultiSearchArgs ==
    [searches_json : {BadJson} \cup
        {JsonText(ss) : ss \in UNION {[1..n -> SearchObjectSet] : n \in 0..2}},
     common_query_by : {<<>>, <<"t">>}, common_filter_by : FilterSet,
     common_per_page : PerPageSet]

\* what the engine can answer to one search
SampleDoc == << <<"d", S(<<"a">>)>>, <<"t", S(<<"x">>)>> >>

RawHitSet ==
    { Hit(SampleDoc),
      D(<< <<"document", D(SampleDoc)>>,
           <<"text_match_info", D(<< <<"score", S(<<"9">>)>> >>)>>,
           <<"highlights", L(<< S(<<"h">>) >>)>> >>),
      D(<< <<"document", D(SampleDoc)>>,
           <<"vector_distance", F(0)>>,
           <<"hybrid_search_info", D(<< <<"rank_fusion_score", F(1)>> >>)>>,
           <<"highlights", L(<<>>)>> >>) }

Groups == L(<< D(<< <<"group_key", L(<< S(<<"a">>) >>)>>,
                    <<"hits", L(<< Hit(SampleDoc) >>)>> >>) >>)

Facets == L(<< D(<< <<"field_name", S(<<"t">>)>> >>) >>)

ParsedQuery == D(<< <<"generated_params", D(<<>>)>> >>)

SomeHits(per_page) == IF per_page > 0 THEN L(<< Hit(SampleDoc) >>) ELSE L(<<>>)

RawExtraSet(per_page) ==
    { D(<<>>),
      D(<< <<"hits", SomeHits(per_page)>>, <<"facet_counts", Facets>> >>),
      D(<< <<"hits", SomeHits(per_page)>>, <<"facet_counts", L(<<>>)>> >>),
      D(<< <<"hits", SomeHits(per_page)>>, <<"grouped_hits", Groups>> >>),
      D(<< <<"found", I(1)>>, <<"grouped_hits", Groups>> >>),
      D(<< <<"hits", SomeHits(per_page)>>, <<"grouped_hits", L(<<>>)>> >>),
      D(<< <<"hits", SomeHits(per_page)>>, <<"parsed_nl_query", ParsedQuery>> >>) }

RawResults(per_page) ==
    {D(<< <<"found", I(Len(hs))>>, <<"page", I(1)>>,
          <<"search_time_ms", I(4)>>, <<"hits", L(hs)>> >>) :
        hs \in HitLists(RawHitSet, per_page, MaxSearchHits)}
    \cup RawExtraSet(per_page)

MultiSubResults ==
    { D(<<>>),
      D(<< <<"found", I(1)>>, <<"hits", L(<< Hit(SampleDoc) >>)>> >>),
      D(<< <<"found", I(1)>>, <<"grouped_hits", Groups>> >>) }

MultiResponses(n) ==
    {D(<< <<"results", L(subs)>> >>) : subs \in [1..n -> MultiSubResults]}

GatewayMultiSearch(searches, common) ==
    [method |-> "multi_search", searches |-> searches, common |-> common]

NoValue == <<>>

(***************************************************************************)
(* Concurrent invocations of rag_search_and_retrieve_chunks: every call    *)
(* has a frame of its own for its parameters and local variables.          *)
(***************************************************************************)
MaxInvocations == 2

Invocations == 1..MaxInvocations

SharedFrame(i) == 1

Frame(i) == i

NoLocals == [args |-> NoValue, doc_ids |-> <<>>, metadata_by_id |-> <<>>,
             chunk_filter |-> <<>>]

NoFrames == [f \in Invocations |-> NoLocals]

\* per invocation: where it stands, what it was given, what it sent to and
\* got from the gateway, what it returned
NotInvoked ==
    [i \in Invocations |->
        [pc |-> "idle", given |-> NoValue, calls |-> <<>>, answers |-> <<>>,
         returned |-> NoValue]]

Init ==
    /\ pc = "idle"
    /\ op = "none"
    /\ args = NoValue
    /\ calls = <<>>
    /\ meta_result = NoValue
    /\ meta_hits = <<>>
    /\ doc_ids = <<>>
    /\ metadata_by_id = <<>>
    /\ chunk_filter = <<>>
    /\ chunks_result = NoValue
    /\ result = NoValue
    /\ out = NoValue
    /\ san_doc = NoValue
    /\ san_kept = {}
    /\ replies = <<>>
    /\ client = ClientUnset
    /\ frames = NoFrames
    /\ invocations = NotInvoked

(***************************************************************************)
(* rag_search_and_retrieve_chunks: the call up to the metadata query,      *)
(* the metadata response up to a return or the chunk query, and the chunk  *)
(* response up to the return.                                              *)
(***************************************************************************)
RagStart ==
    /\ pc = "idle"
    /\ \E a \in RagArgs :
        /\ args' = a
        /\ calls' = Append(calls,
              GatewaySearch("metadata",
                  MetaParams(a.query, a.query_by, a.per_page, a.filter_by)))
    /\ client' = ClientProperty(client)
    /\ op' = "rag_search_and_retrieve_chunks"
    /\ pc' = "meta_query"
    /\ UNCHANGED <<meta_result, meta_hits, doc_ids, metadata_by_id,
                   chunk_filter, chunks_result, result, out, san_doc, san_kept, frames, invocations,
                   replies>>

RagMetaReturn ==
    /\ pc = "meta_query"
    /\ op = "rag_search_and_retrieve_chunks"
    /\ \E res \in SearchResponses(MetaHitSet, Min(args.per_page, 50), MaxHits) :
        LET hits == ResultHits(res)
            ids == ExtractDocIds(hits, args.doc_id_field)
            metadata == StoreMetadata(<<>>, hits, args.doc_id_field,
                                      args.include_metadata)
            filter == ChunkFilter(args.doc_id_field, ids, args.chunks_filter_by)
            outcome == MetaOutcome(hits, ids)
        IN  /\ replies' = Append(replies, res)
            /\ meta_result' = res
            /\ meta_hits' = hits
            /\ CASE outcome = "no_hits" ->
                    /\ out' = NoHitsOutput
                    /\ pc' = "done"
                    /\ UNCHANGED <<doc_ids, metadata_by_id, chunk_filter, calls>>
                 [] outcome = "no_link" ->
                    /\ doc_ids' = ids
                    /\ metadata_by_id' = metadata
                    /\ out' = NoLinkOutput(hits)
                    /\ pc' = "done"
                    /\ UNCHANGED <<chunk_filter, calls>>
                 [] outcome = "join" ->
                    /\ doc_ids' = ids
                    /\ metadata_by_id' = metadata
                    /\ chunk_filter' = filter
                    /\ calls' = calls \o ChunkQueries(args, filter, ids)
                    /\ pc' = "chunk_query"
                    /\ UNCHANGED out
    /\ UNCHANGED <<op, args, chunks_result, result, san_doc, san_kept, client,
                   frames, invocations>>

\* ts.search raises at the metadata query: nothing catches it
RagMetaFail ==
    /\ pc = "meta_query"
    /\ op = "rag_search_and_retrieve_chunks"
    /\ \E e \in GatewayErrors :
        /\ replies' = Append(replies, Raise(e))
        /\ out' = Propagate(e)
    /\ pc' = "raised"
    /\ UNCHANGED <<op, args, calls, meta_result, meta_hits, doc_ids,
                   metadata_by_id, chunk_filter, chunks_result, result,
                   san_doc, san_kept, client, frames, invocations>>

RagChunkReturn ==
    /\ pc = "chunk_query"
    /\ op = "rag_search_and_retrieve_chunks"
    /\ \E res \in SearchResponses(ChunkHitSet,
                      ChunkPerPage(args.chunks_per_doc, doc_ids), MaxChunks) :
        LET chunks_by_doc == ChunksByDoc(doc_ids, ResultHits(res),
                                         args.doc_id_field)
            results == BuildResults(doc_ids, args.include_metadata,
                                    metadata_by_id, chunks_by_doc)
        IN  /\ replies' = Append(replies, res)
            /\ chunks_result' = res
            /\ out' = JoinOutput(results)
    /\ pc' = "done"
    /\ UNCHANGED <<op, args, calls, meta_result, meta_hits, doc_ids,
                   metadata_by_id, chunk_filter, result, san_doc, san_kept,
                   frames, invocations, client>>

\* ts.search raises at the chunk query: nothing catches it
RagChunkFail ==
    /\ pc = "chunk_query"
    /\ op = "rag_search_and_retrieve_chunks"
    /\ \E e \in GatewayErrors :
        /\ replies' = Append(replies, Raise(e))
        /\ out' = Propagate(e)
    /\ pc' = "raised"
    /\ UNCHANGED <<op, args, calls, meta_result, meta_hits, doc_ids,
                   metadata_by_id, chunk_filter, chunks_result, result,
                   san_doc, san_kept, client, frames, invocations>>

(***************************************************************************)
(* The single-call search tools: build the parameters, call the gateway    *)
(* once, shape the response; an error of the gateway is not caught.        *)
(***************************************************************************)
RagIdle == <<meta_result, meta_hits, doc_ids, metadata_by_id, chunk_filter,
             chunks_result>>

GatewayFails ==
    \E e \in GatewayErrors :
        /\ replies' = Append(replies, Raise(e))
        /\ out' = Propagate(e)
        /\ pc' = "raised"
        /\ UNCHANGED result

HybridSearch ==
    /\ pc = "idle"
    /\ \E a \in HybridArgs :
        LET params == HybridParams(a)
        IN  /\ args' = a
            /\ calls' = Append(calls, GatewaySearch("collection", params))
            /\ \/ \E res \in RawResults(DictGet(params, "per_page", 0)) :
                    /\ replies' = Append(replies, res)
                    /\ result' = res
                    /\ out' = FormatSearchResult(res)
                    /\ pc' = "done"
               \/ GatewayFails
    /\ client' = ClientProperty(client)
    /\ op' = "hybrid_search"
    /\ UNCHANGED <<RagIdle, san_doc, san_kept, frames, invocations>>

KeywordSearch ==
    /\ pc = "idle"
    /\ \E a \in KeywordArgs :
        LET params == KeywordParams(a)
        IN  /\ args' = a
            /\ calls' = Append(calls, GatewaySearch("collection", params))
            /\ \/ \E res \in RawResults(DictGet(params, "per_page", 0)) :
                    /\ replies' = Append(replies, res)
                    /\ result' = res
                    /\ out' = FormatSearchResult(res)
                    /\ pc' = "done"
               \/ GatewayFails
    /\ client' = ClientProperty(client)
    /\ op' = "keyword_search"
    /\ UNCHANGED <<RagIdle, san_doc, san_kept, frames, invocations>>

NaturalLanguageSearch ==
    /\ pc = "idle"
    /\ \E a \in NaturalLanguageArgs :
        LET params == NaturalLanguageParams(a)
        IN  /\ args' = a
            /\ calls' = Append(calls, GatewaySearch("collection", params))
            /\ \/ \E res \in RawResults(DictGet(params, "per_page", 0)) :
                    /\ replies' = Append(replies, res)
                    /\ result' = res
                    /\ out' = FormatSearchResult(res)
                    /\ pc' = "done"
               \/ GatewayFails
    /\ client' = ClientProperty(client)
    /\ op' = "natural_language_search"
    /\ UNCHANGED <<RagIdle, san_doc, san_kept, frames, invocations>>

MultiSearch ==
    /\ pc = "idle"
    /\ \E a \in MultiSearchArgs :
        /\ args' = a
        /\ IF IsJson(a.searches_json)
           THEN LET searches == JsonLoads(a.searches_json)
                IN  /\ calls' = Append(calls,
                          GatewayMultiSearch(searches, MultiSearchCommon(a)))
                    /\ client' = ClientProperty(client)
                    /\ \/ \E res \in MultiResponses(Len(searches)) :
                            /\ replies' = Append(replies, res)
                            /\ result' = res
                            /\ out' = FormatMultiSearch(res)
                            /\ pc' = "done"
                       \/ GatewayFails
           ELSE /\ out' = Raise("JSONDecodeError")
                /\ pc' = "raised"
                /\ UNCHANGED <<calls, result, replies, client>>
    /\ op' = "multi_search"
    /\ UNCHANGED <<RagIdle, san_doc, san_kept, frames, invocations>>

RagHybridChunkSearch ==
    /\ pc = "idle"
    /\ \E a \in RagHybridArgs :
        LET params == RagHybridParams(a)
        IN  /\ args' = a
            /\ calls' = Append(calls, GatewaySearch("chunks", params))
            /\ \/ \E res \in RawResults(DictGet(params, "per_page", 0)) :
                    /\ replies' = Append(replies, res)
                    /\ result' = res
                    /\ out' = FormatHybridChunks(res)
                    /\ pc' = "done"
               \/ GatewayFails
    /\ client' = ClientProperty(client)
    /\ op' = "rag_hybrid_chunk_search"
    /\ UNCHANGED <<RagIdle, san_doc, san_kept, frames, invocations>>

GetDocumentChunks ==
    /\ pc = "idle"
    /\ \E a \in DocumentChunksArgs :
        LET params == DocumentChunksParams(a)
        IN  /\ args' = a
            /\ calls' = Append(calls, GatewaySearch("chunks", params))
            /\ \/ \E res \in SearchResponses(ChunkHitSet,
                                  DictGet(params, "per_page", 0), MaxChunks) :
                    /\ replies' = Append(replies, res)
                    /\ result' = res
                    /\ out' = FormatDocumentChunks(a.doc_id, res)
                    /\ pc' = "done"
               \/ GatewayFails
    /\ client' = ClientProperty(client)
    /\ op' = "get_document_chunks"
    /\ UNCHANGED <<RagIdle, san_doc, san_kept, frames, invocations>>

(***************************************************************************)
(* The tools that take a JSON string: parse it, then call the gateway.     *)
(***************************************************************************)
B(b) == <<"bool", b>>

\* the tools whose body is json.loads(argument) followed by one gateway call
JsonWriteTools ==
    {"create_document", "upsert_document", "update_document",
     "create_collection", "update_collection_schema",
     "create_nl_search_model", "update_nl_search_model"}

JsonArgument(tool) ==
    CASE tool \in {"create_document", "upsert_document"} -> "document_json"
      [] tool = "update_document" -> "partial_document_json"
      [] tool = "create_collection" -> "schema_json"
      [] tool = "update_collection_schema" -> "schema_changes_json"
      [] tool = "create_nl_search_model" -> "model_config_json"
      [] tool = "update_nl_search_model" -> "updates_json"

\* the NL model methods of the gateway go through httpx, not the client
UsesClient(tool) ==
    tool \notin {"create_nl_search_model", "update_nl_search_model"}

JsonObjectSet == { D(SampleDoc), D(<<>>) }

JsonObjectTexts == {BadJson} \cup {JsonText(v) : v \in JsonObjectSet}

GatewayWrite(method, body) == [method |-> method, body |-> body]

\* the gateway calls a tool issues for its JSON argument: json.loads raises
\* before the call is reached
CallsForJsonUnparsed(method, text) ==
    << GatewayWrite(method, IF IsJson(text) THEN JsonLoads(text) ELSE None) >>

CallsForJson(method, text) ==
    IF IsJson(text) THEN << GatewayWrite(method, JsonLoads(text)) >> ELSE <<>>

WriteReplies == { D(<< <<"id", S(<<"1">>)>> >>), D(<< <<"name", S(<<"c">>)>> >>) }

JsonWrite(tool) ==
    /\ pc = "idle"
    /\ \E text \in JsonObjectTexts :
        /\ args' = (JsonArgument(tool) :> text)
        /\ calls' = calls \o CallsForJson(tool, text)
        /\ IF IsJson(text)
           THEN /\ client' = IF UsesClient(tool) THEN ClientProperty(client)
                             ELSE client
                /\ \/ \E res \in WriteReplies :
                        /\ replies' = Append(replies, res)
                        /\ result' = res
                        /\ out' = res
                        /\ pc' = "done"
                   \/ GatewayFails
           ELSE /\ out' = Raise("JSONDecodeError")
                /\ pc' = "raised"
                /\ UNCHANGED <<result, replies, client>>
    /\ op' = tool
    /\ UNCHANGED <<RagIdle, san_doc, san_kept, frames, invocations>>

\* import_documents: one result per document, as a dict or as JSON text
ImportResultSet ==
    { D(<< <<"success", B(TRUE)>> >>),
      D(<< <<"success", B(FALSE)>>, <<"error", S(<<"e">>)>> >>),
      S(JsonText(D(<< <<"success", B(TRUE)>> >>))),
      S(JsonText(D(<< <<"success", B(FALSE)>> >>))),
      I(1) }

ImportTexts ==
    {BadJson} \cup
    {JsonText(L(docs)) : docs \in UNION {[1..n -> JsonObjectSet] : n \in 0..2}}

\* results given as JSON text never looked into
ImportFailedDictOnly(r) ==
    Tag(r) = "dict" /\ DictGet(Payload(r), "success", None) = B(FALSE)

ImportFailed(r) ==
    CASE Tag(r) = "dict" -> DictGet(Payload(r), "success", None) = B(FALSE)
      [] Tag(r) = "str" ->
            DictGet(Payload(JsonLoads(Payload(r))), "success", None) = B(FALSE)
      [] OTHER -> FALSE

ImportError(r) ==
    IF Tag(r) = "dict" THEN DictGet(Payload(r), "error", S(<<"unknown">>))
    ELSE DictGet(Payload(JsonLoads(Payload(r))), "error", S(<<"unknown">>))

ImportSummary(documents, results) ==
    LET failed == SelectSeq([i \in 1..Len(results) |-> i],
                            LAMBDA i : ImportFailed(results[i]))
    IN  << <<"total", Len(documents)>>,
           <<"successes", Len(results) - Len(failed)>>,
           <<"failures",
             [k \in 1..Len(failed) |->
                 << <<"index", failed[k] - 1>>,
                    <<"error", ImportError(results[failed[k]])>> >>]>> >>

ImportDocuments ==
    /\ pc = "idle"
    /\ \E text \in ImportTexts :
        /\ args' = [documents_json |-> text, action |-> "upsert"]
        /\ IF IsJson(text)
           THEN LET documents == Payload(JsonLoads(text))
                IN  /\ calls' = Append(calls,
                          [method |-> "import_documents", body |-> documents,
                           action |-> "upsert"])
                    /\ client' = ClientProperty(client)
                    /\ \/ \E results \in [1..Len(documents) -> ImportResultSet] :
                            /\ replies' = Append(replies, L(results))
                            /\ result' = L(results)
                            /\ out' = ImportSummary(documents, results)
                            /\ pc' = "done"
                       \/ GatewayFails
           ELSE /\ out' = Raise("JSONDecodeError")
                /\ pc' = "raised"
                /\ UNCHANGED <<calls, result, replies, client>>
    /\ op' = "import_documents"
    /\ UNCHANGED <<RagIdle, san_doc, san_kept, frames, invocations>>

Next ==
    \/ RagStart
    \/ RagMetaReturn
    \/ RagMetaFail
    \/ RagChunkReturn
    \/ RagChunkFail
    \/ HybridSearch
    \/ KeywordSearch
    \/ NaturalLanguageSearch
    \/ MultiSearch
    \/ RagHybridChunkSearch
    \/ GetDocumentChunks
    \/ \E tool \in JsonWriteTools : JsonWrite(tool)
    \/ ImportDocuments

Spec == Init /\ [][Next]_vars

(***************************************************************************)
(* The four document filters as functions of one document.                 *)
(***************************************************************************)
NumberArray(n) == L(Rep(F(1), n))

StringArray(n) == L(Rep(S(<<"s">>), n))

SanValueSet ==
    { S(<<"x">>), I(7), None, L(<<>>),
      NumberArray(1), NumberArray(49), NumberArray(50), NumberArray(51),
      NumberArray(60), L(Rep(I(2), 50)),
      StringArray(50), StringArray(60),
      L(<<I(1)>> \o Rep(S(<<"s">>), 59)),
      L(<<S(<<"s">>)>> \o Rep(F(1), 59)) }

SanDocSet ==
    {<< <<"e", v>> >> : v \in SanValueSet}
    \cup {<< <<"e", v>>, <<"g", w>> >> : v \in SanValueSet, w \in SanValueSet}

InitSan ==
    /\ pc = "sanitize"
    /\ op = "none"
    /\ args = NoValue
    /\ calls = <<>>
    /\ meta_result = NoValue
    /\ meta_hits = <<>>
    /\ doc_ids = <<>>
    /\ metadata_by_id = <<>>
    /\ chunk_filter = <<>>
    /\ chunks_result = NoValue
    /\ result = NoValue
    /\ out = NoValue
    /\ san_doc \in SanDocSet
    /\ san_kept = {}
    /\ replies = <<>>
    /\ client = ClientUnset
    /\ frames = NoFrames
    /\ invocations = NotInvoked

Sanitized(site) == \E p \in san_kept : p[1] = site

SanFrame == <<pc, op, args, calls, meta_result, meta_hits, doc_ids,
              metadata_by_id, chunk_filter, chunks_result, result, out, san_doc,
              replies, client, frames, invocations>>

SanitizeMetadata ==
    /\ pc = "sanitize"
    /\ ~Sanitized("rag_metadata")
    /\ san_kept' = san_kept \cup {<<"rag_metadata", CleanMetadata(san_doc)>>}
    /\ UNCHANGED SanFrame

SanitizeChunk ==
    /\ pc = "sanitize"
    /\ ~Sanitized("rag_chunk")
    /\ san_kept' = san_kept \cup {<<"rag_chunk", CleanChunk(san_doc)>>}
    /\ UNCHANGED SanFrame

SanitizeDocumentChunk ==
    /\ pc = "sanitize"
    /\ ~Sanitized("get_document_chunks")
    /\ san_kept' = san_kept \cup
            {<<"get_document_chunks", CleanDocumentChunk(san_doc)>>}
    /\ UNCHANGED SanFrame

SanitizeSample ==
    /\ pc = "sanitize"
    /\ ~Sanitized("analyze_collection")
    /\ san_kept' = san_kept \cup {<<"analyze_collection", CleanSample(san_doc)>>}
    /\ UNCHANGED SanFrame

NextSan ==
    \/ SanitizeMetadata
    \/ SanitizeChunk
    \/ SanitizeDocumentChunk
    \/ SanitizeSample

SpecSan == InitSan /\ [][NextSan]_vars

(***************************************************************************)
(* Several invocations of rag_search_and_retrieve_chunks in flight at      *)
(* once, interleaved where they wait for the gateway.                      *)
(***************************************************************************)
ConcHit(id) == Hit(<< <<"d", S(id)>> >>)

ConcMetaResponses ==
    { D(<< <<"found", I(Len(hs))>>, <<"hits", L(hs)>> >>) :
        hs \in { <<>>, <<ConcHit(<<"a">>)>>,
                 <<ConcHit(<<"a">>), ConcHit(<<"b">>)>> } }

ConcChunkResponses ==
    { D(<< <<"found", I(Len(hs))>>, <<"hits", L(hs)>> >>) :
        hs \in { <<>>, <<ConcHit(<<"a">>)>>,
                 <<ConcHit(<<"b">>), ConcHit(<<"a">>)>> } }

ConcArgs ==
    { [query |-> "q", query_by |-> <<"t">>, doc_id_field |-> "d",
       chunk_content_field |-> <<"c">>, filter_by |-> <<>>, per_page |-> 5,
       chunks_per_doc |-> 50, include_metadata |-> o[1],
       chunks_sort_by |-> "", chunks_filter_by |-> o[2],
       exclude_fields |-> ""] :
        o \in { <<TRUE, <<>>>>, <<FALSE, <<"k", ":", "=", "1">>>> } }

InitConc ==
    /\ pc = "concurrent"
    /\ op = "none"
    /\ args = NoValue
    /\ calls = <<>>
    /\ meta_result = NoValue
    /\ meta_hits = <<>>
    /\ doc_ids = <<>>
    /\ metadata_by_id = <<>>
    /\ chunk_filter = <<>>
    /\ chunks_result = NoValue
    /\ result = NoValue
    /\ out = NoValue
    /\ san_doc = NoValue
    /\ san_kept = {}
    /\ replies = <<>>
    /\ client = ClientUnset
    /\ frames = NoFrames
    /\ invocations = NotInvoked

ConcFrame == <<pc, op, args, calls, meta_result, meta_hits, doc_ids,
               metadata_by_id, chunk_filter, chunks_result, result, out,
               san_doc, san_kept, replies>>

ConcStart(i) ==
    /\ pc = "concurrent"
    /\ invocations[i].pc = "idle"
    /\ \E a \in ConcArgs :
        /\ frames' = [frames EXCEPT ![Frame(i)].args = a]
        /\ invocations' = [invocations EXCEPT
              ![i].pc = "meta_query",
              ![i].given = a,
              ![i].calls = << GatewaySearch("metadata",
                     MetaParams(a.query, a.query_by, a.per_page, a.filter_by)) >>]
    /\ client' = ClientProperty(client)
    /\ UNCHANGED ConcFrame

ConcMetaReturn(i) ==
    /\ pc = "concurrent"
    /\ invocations[i].pc = "meta_query"
    /\ \E res \in ConcMetaResponses :
        LET a == frames[Frame(i)].args
            hits == ResultHits(res)
            ids == ExtractDocIds(hits, a.doc_id_field)
            metadata == StoreMetadata(<<>>, hits, a.doc_id_field,
                                      a.include_metadata)
            filter == ChunkFilter(a.doc_id_field, ids, a.chunks_filter_by)
            outcome == MetaOutcome(hits, ids)
        IN  CASE outcome = "no_hits" ->
                    /\ invocations' = [invocations EXCEPT
                          ![i].pc = "done",
                          ![i].answers = <<res>>,
                          ![i].returned = NoHitsOutput]
                    /\ UNCHANGED frames
              [] outcome = "no_link" ->
                    /\ frames' = [frames EXCEPT
                          ![Frame(i)].doc_ids = ids,
                          ![Frame(i)].metadata_by_id = metadata]
                    /\ invocations' = [invocations EXCEPT
                          ![i].pc = "done",
                          ![i].answers = <<res>>,
                          ![i].returned = NoLinkOutput(hits)]
              [] outcome = "join" ->
                    /\ frames' = [frames EXCEPT
                          ![Frame(i)].doc_ids = ids,
                          ![Frame(i)].metadata_by_id = metadata,
                          ![Frame(i)].chunk_filter = filter]
                    /\ invocations' = [invocations EXCEPT
                          ![i].pc = "chunk_query",
                          ![i].answers = <<res>>,
                          ![i].calls = @ \o ChunkQueries(a, filter, ids)]
    /\ UNCHANGED <<ConcFrame, client>>

ConcChunkReturn(i) ==
    /\ pc = "concurrent"
    /\ invocations[i].pc = "chunk_query"
    /\ \E res \in ConcChunkResponses :
        LET locals == frames[Frame(i)]
            chunks_by_doc == ChunksByDoc(locals.doc_ids, ResultHits(res),
                                         locals.args.doc_id_field)
            results == BuildResults(locals.doc_ids,
                                    locals.args.include_metadata,
                                    locals.metadata_by_id, chunks_by_doc)
        IN  invocations' = [invocations EXCEPT
                ![i].pc = "done",
                ![i].answers = Append(@, res),
                ![i].returned = JoinOutput(results)]
    /\ UNCHANGED <<ConcFrame, client, frames>>

ConcFail(i) ==
    /\ pc = "concurrent"
    /\ invocations[i].pc \in {"meta_query", "chunk_query"}
    /\ \E e \in GatewayErrors :
        invocations' = [invocations EXCEPT
            ![i].pc = "raised",
            ![i].answers = Append(@, Raise(e)),
            ![i].returned = Propagate(e)]
    /\ UNCHANGED <<ConcFrame, client, frames>>

NextConc ==
    \E i \in Invocations :
        \/ ConcStart(i)
        \/ ConcMetaReturn(i)
        \/ ConcChunkReturn(i)
        \/ ConcFail(i)

SpecConc == InitConc /\ [][NextConc]_vars

(***************************************************************************)
(* Properties of rag_search_and_retrieve_chunks.  They are stated over the *)
(* raw engine responses, the arguments, the gateway calls and the output.  *)
(***************************************************************************)
RagOp == op = "rag_search_and_retrieve_chunks"

RagReturned == RagOp /\ pc = "done"

RawMetaHits == ResultHits(meta_result)

\* the link-field value of the i-th metadata hit, None when it has none
LinkValue(i) ==
    DictGet(HitDocument(RawMetaHits[i]), args.doc_id_field, None)

LinkedIndexes == {i \in 1..Len(RawMetaHits) : LinkValue(i) # None}

\* the linked hits in hit order, and their link values as strings
LinkedHits ==
    SelectSeq([i \in 1..Len(RawMetaHits) |-> i], LAMBDA i : LinkValue(i) # None)

LinkedIds ==
    LET linked == LinkedHits
    IN  [k \in 1..Len(linked) |-> Str(LinkValue(linked[k]))]

OutFound == DictGet(out, "found", -1)

OutResults == DictGet(out, "results", <<>>)

EntryId(e) == DictGet(e, "doc_id", <<>>)

EntryChunks(e) == DictGet(e, "chunks", <<>>)

EntryCount(e) == DictGet(e, "chunk_count", -1)

RawChunkLinks ==
    LET hits == ResultHits(chunks_result)
    IN  {Str(DictGet(HitDocument(hits[i]), args.doc_id_field, S(<<>>))) :
            i \in 1..Len(hits)}

\* C1: every doc_id of the metadata result set appears exactly once in the
\* results list, also when two hits carry the same link-field value, and
\* also when it has no chunk.
EveryDocIdExactlyOnce ==
    RagReturned /\ LinkedIndexes # {} =>
        \A i \in LinkedIndexes :
            Cardinality({k \in 1..Len(OutResults) :
                EntryId(OutResults[k]) = Str(LinkValue(i))}) = 1

\* C2: every per_page forwarded to the gateway by a search operation,
\* multi_search's common per_page included, is at most 250.
PerPageNeverAbove250 ==
    \A i \in 1..Len(calls) :
        CASE calls[i].method = "search" ->
                DictGet(calls[i].params, "per_page", 0) <= 250
          [] calls[i].method = "multi_search" ->
                DictGet(calls[i].common, "per_page", 0) <= 250
          [] OTHER -> TRUE

\* C3: the per_page hybrid_search sends is clamp(requested, 1, 250).
Clamp(n, lo, hi) == IF n < lo THEN lo ELSE IF n > hi THEN hi ELSE n

HybridPerPageClamped ==
    op = "hybrid_search" /\ pc = "done" =>
        DictGet(calls[1].params, "per_page", 0) = Clamp(args.per_page, 1, 250)

\* C4: zero metadata hits give found = 0 and results = [], and the gateway
\* has been called exactly once (the metadata query) at the return.
ZeroHitsReturnsEmpty ==
    RagReturned /\ RawMetaHits = <<>> =>
        /\ OutFound = 0
        /\ DictHas(out, "results") /\ OutResults = <<>>
        /\ Len(calls) = 1
        /\ calls[1].collection = "metadata"

ZeroHitsReturned == RagReturned /\ RawMetaHits = <<>> /\ args.per_page > 0

\* C5: metadata hits none of which yields a link value give found = the
\* number of hits and results = [], with exactly one gateway call.
NoLinkReturnsHitCount ==
    RagReturned /\ RawMetaHits # <<>> /\ LinkedIndexes = {} =>
        /\ OutFound = Len(RawMetaHits)
        /\ DictHas(out, "results") /\ OutResults = <<>>
        /\ Len(calls) = 1
        /\ calls[1].collection = "metadata"

NoLinkReturned ==
    RagReturned /\ Len(RawMetaHits) >= 2 /\ LinkedIndexes = {}
        /\ args.doc_id_field = "d"

\* C6: the results hold one entry per metadata hit with a link value, in
\* metadata-hit order; hits without one give no entry; an entry whose doc_id
\* got no chunk from the chunk query has chunks = [] and chunk_count = 0.
ResultsFollowLinkedHits ==
    RagReturned =>
        LET linked == LinkedHits
            results == OutResults
            links == RawChunkLinks
        IN  /\ Len(results) = Len(linked)
            /\ \A k \in 1..Len(results) :
                /\ \A j \in 1..(k - 1) : linked[j] < linked[k]
                /\ EntryId(results[k]) = Str(LinkValue(linked[k]))
                /\ EntryId(results[k]) \notin links =>
                    /\ DictHas(results[k], "chunks")
                    /\ EntryChunks(results[k]) = <<>>
                    /\ EntryCount(results[k]) = 0

ChunklessEntryBetweenOthers ==
    /\ RagReturned
    /\ Len(RawMetaHits) = 3
    /\ LinkedIndexes = {1, 3}
    /\ Len(OutResults) = 2
    /\ EntryCount(OutResults[1]) = 0
    /\ EntryCount(OutResults[2]) > 0

\* C7: a completed join returns found = len(results), chunk_count =
\* len(chunks) in every entry, and total_chunks = the sum of the chunk_counts.
JoinOutputCounts ==
    RagReturned /\ LinkedIndexes # {} =>
        /\ OutFound = Len(OutResults)
        /\ \A k \in 1..Len(OutResults) :
            EntryCount(OutResults[k]) = Len(EntryChunks(OutResults[k]))
        /\ DictGet(out, "total_chunks", -1) =
            SumSeq([k \in 1..Len(OutResults) |-> EntryCount(OutResults[k])])

JoinWithSeveralChunks ==
    /\ RagReturned
    /\ Len(OutResults) = 3
    /\ DictGet(out, "total_chunks", -1) = 2

\* C8: the chunk filter is exactly <linkField>:[<id1>,<id2>,...] with the
\* linked ids in metadata order, each backtick preceded by a backslash, and
\* " && " plus the extra chunk filter appended only when that is not empty.
BackticksUpTo(id, i) == Cardinality({j \in 1..i : id[j] = Backtick})

EscapedLen(id) == Len(id) + BackticksUpTo(id, Len(id))

\* the number of characters of the filter before the k-th id
IdStart(ids, k) == 3 + SumSeq([m \in 1..(k - 1) |-> EscapedLen(ids[m]) + 1])

MembershipLen(ids) == IdStart(ids, Len(ids)) + EscapedLen(ids[Len(ids)]) + 1

IsMembershipFilter(f, field, ids) ==
    LET end == MembershipLen(ids)
    IN  /\ Len(f) >= end
        /\ f[1] = field /\ f[2] = ":" /\ f[3] = "["
        /\ \A k \in 1..Len(ids) :
            LET start == IdStart(ids, k)
            IN  /\ \A i \in 1..Len(ids[k]) :
                    LET pos == start + i + BackticksUpTo(ids[k], i)
                    IN  /\ f[pos] = ids[k][i]
                        /\ ids[k][i] = Backtick => f[pos - 1] = Backslash
                /\ k < Len(ids) => f[start + EscapedLen(ids[k]) + 1] = ","
        /\ f[end] = "]"

IsChunkFilter(f, field, ids, extra) ==
    LET end == MembershipLen(ids)
    IN  /\ IsMembershipFilter(f, field, ids)
        /\ IF extra = <<>>
           THEN Len(f) = end
           ELSE /\ Len(f) = end + 4 + Len(extra)
                /\ SubSeq(f, end + 1, end + 4) = <<" ", "&", "&", " ">>
                /\ SubSeq(f, end + 5, Len(f)) = extra

ChunkFilterExact ==
    RagOp /\ Len(calls) = 2 =>
        LET ids == LinkedIds
            filter == DictGet(calls[2].params, "filter_by", <<>>)
        IN  IsChunkFilter(filter, args.doc_id_field, ids, args.chunks_filter_by)

EscapedFilterWithExtra ==
    /\ RagOp
    /\ Len(calls) = 2
    /\ Len(LinkedIds) = 3
    /\ \E k \in 1..3 : BackticksUpTo(LinkedIds[k], Len(LinkedIds[k])) > 0
    /\ LinkedIds[3] = <<"1">>
    /\ args.chunks_filter_by # <<>>

(***************************************************************************)
(* Properties of the bulk-field filters, over one document.                *)
(***************************************************************************)
IsNumberArray(v) ==
    IsList(v) /\ \A i \in 1..Len(Payload(v)) : IsNumber(Payload(v)[i])

IsStringArray(v) ==
    IsList(v) /\ \A i \in 1..Len(Payload(v)) : Tag(Payload(v)[i]) = "str"

KeptFields(kept) == {kept[i][1] : i \in 1..Len(kept)}

\* C9: wherever a document is surfaced, a numeric array of length 50 is
\* elided, one of length 49 is retained, a length-60 array of strings is
\* retained.
BulkFieldSuppression ==
    \A p \in san_kept : \A i \in 1..Len(san_doc) :
        LET key == san_doc[i][1]
            v == san_doc[i][2]
        IN  /\ IsNumberArray(v) /\ Len(Payload(v)) = 50
                => key \notin KeptFields(p[2])
            /\ IsNumberArray(v) /\ Len(Payload(v)) = 49
                => key \in KeptFields(p[2])
            /\ IsStringArray(v) /\ Len(Payload(v)) = 60
                => key \in KeptFields(p[2])

\* C10: the sanitizers of analyze_collection, of the RAG metadata projection
\* and of the chunk documents keep the same set of fields of every document.
SanitizersAgree ==
    \A p \in san_kept : \A q \in san_kept :
        KeptFields(p[2]) = KeptFields(q[2])

\* C21: a bulk-field filter elides a field only if that field is a list whose
\* elements are all numbers; a list whose first element is a number and which
\* also holds elements that are not numbers is retained, whatever its length.
OnlyNumericArraysSuppressed ==
    \A p \in san_kept : \A i \in 1..Len(san_doc) :
        san_doc[i][1] \notin KeptFields(p[2]) => IsNumberArray(san_doc[i][2])

(***************************************************************************)
(* Properties of the parameters the search tools send to the gateway.      *)
(***************************************************************************)
OptionalKeys == {"filter_by", "sort_by", "include_fields", "exclude_fields",
                 "highlight_fields", "group_by", "facet_by"}

\* the empty value of a key: filters are kept as character sequences
EmptyOf(key) == IF key = "filter_by" THEN <<>> ELSE ""

CallParams(call) == IF call.method = "search" THEN call.params ELSE call.common

\* the argument a key of the i-th call is copied from: "generated" for a
\* filter the tool composes itself, "none" when the tool never sends the key
ArgumentOf(i, key) ==
    CASE op = "rag_search_and_retrieve_chunks" /\ i = 1 ->
            IF key = "filter_by" THEN "filter_by" ELSE "none"
      [] op = "rag_search_and_retrieve_chunks" /\ i > 1 ->
            CASE key = "filter_by" -> "generated"
              [] key = "sort_by" -> "chunks_sort_by"
              [] key = "exclude_fields" -> "exclude_fields"
              [] OTHER -> "none"
      [] op = "get_document_chunks" /\ key = "filter_by" -> "generated"
      [] op = "rag_hybrid_chunk_search" /\ key = "group_by" -> "group_by_doc"
      [] op = "multi_search" ->
            IF key = "filter_by" THEN "common_filter_by" ELSE "none"
      [] OTHER -> IF key \in DOMAIN args THEN key ELSE "none"

OptionalKeyAsSupplied(i, key) ==
    LET params == CallParams(calls[i])
        from == ArgumentOf(i, key)
    IN  CASE from = "none" -> ~DictHas(params, key)
          [] from = "generated" ->
                /\ DictHas(params, key)
                /\ DictGet(params, key, EmptyOf(key)) # EmptyOf(key)
          [] OTHER ->
                /\ DictHas(params, key) <=> args[from] # EmptyOf(key)
                /\ DictHas(params, key) =>
                      /\ DictGet(params, key, EmptyOf(key)) = args[from]
                      /\ DictGet(params, key, EmptyOf(key)) # EmptyOf(key)

\* C11: in the parameters of every gateway call, each of filter_by, sort_by,
\* include_fields, exclude_fields, highlight_fields, group_by and facet_by is
\* present exactly when the caller's argument for it is non-empty (or the tool
\* composed a filter of its own), carries that value, and is never empty.
EmptyOptionalsAbsent ==
    \A i \in 1..Len(calls) : \A key \in OptionalKeys :
        calls[i].method \in {"search", "multi_search"} =>
            OptionalKeyAsSupplied(i, key)

HybridCallWithSomeOptionalsEmpty ==
    /\ op = "hybrid_search"
    /\ Len(calls) = 1
    /\ args.filter_by = <<>>
    /\ args.group_by = ""
    /\ args.highlight_fields = ""
    /\ args.sort_by = "x"
    /\ args.facet_by = "x"
    /\ ~DictHas(calls[1].params, "filter_by")
    /\ ~DictHas(calls[1].params, "group_by")
    /\ DictGet(calls[1].params, "sort_by", "") = "x"

\* the text of query_by before its first comma, without surrounding blanks
FirstComma(chars) ==
    IF \E i \in 1..Len(chars) : chars[i] = ","
    THEN CHOOSE i \in 1..Len(chars) :
            /\ chars[i] = ","
            /\ \A j \in 1..(i - 1) : chars[j] # ","
    ELSE Len(chars) + 1

IsFirstField(field, query_by) ==
    LET n == FirstComma(query_by) - 1
    IN  \E lo \in 1..(n + 1) : \E hi \in 0..n :
            /\ field = SubSeq(query_by, lo, hi)
            /\ \A j \in 1..(lo - 1) : query_by[j] = " "
            /\ \A j \in (hi + 1)..n : query_by[j] = " "
            /\ field # <<>> => field[1] # " " /\ field[Len(field)] # " "

StartsWith(chars, prefix) ==
    /\ Len(chars) >= Len(prefix)
    /\ SubSeq(chars, 1, Len(prefix)) = prefix

AlphaDerivationCase ==
    /\ op = "hybrid_search"
    /\ Len(calls) = 1
    /\ args.vector_query = <<>>
    /\ args.alpha # DefaultAlpha

Contains(chars, piece) ==
    \E i \in 0..(Len(chars) - Len(piece)) :
        SubSeq(chars, i + 1, i + Len(piece)) = piece

\* <field>:([], k:<integer>, alpha:<alpha>)
IsSynthesizedClause(vq, alpha) ==
    \E n \in 0..Len(vq) : \E m \in (n + 9)..Len(vq) :
        /\ SubSeq(vq, n + 1, n + 8) = <<":", "(", "[", "]", ",", " ", "k", ":">>
        /\ \A j \in (n + 9)..m :
              vq[j] \in {"-", "0", "1", "2", "3", "4", "5", "6", "7", "8", "9"}
        /\ SubSeq(vq, m + 1, Len(vq)) =
              <<",", " ", "a", "l", "p", "h", "a", ":">>
                 \o FloatToChars(alpha) \o <<")">>

\* C22: hybrid_search forwards an explicit non-empty vector_query verbatim,
\* whatever alpha is; without one it sends a synthesized clause when alpha is
\* not 0.3, and no vector_query key at all when alpha is 0.3.
VectorQueryResolution ==
    (op = "hybrid_search" /\ Len(calls) = 1) =>
        LET params == calls[1].params
            vq == DictGet(params, "vector_query", <<>>)
        IN  IF args.vector_query # <<>>
            THEN DictHas(params, "vector_query") /\ vq = args.vector_query
            ELSE IF args.alpha # DefaultAlpha
            THEN DictHas(params, "vector_query")
                    /\ IsSynthesizedClause(vq, args.alpha)
            ELSE ~DictHas(params, "vector_query")

ExplicitVectorQueryWithAlpha ==
    /\ op = "hybrid_search"
    /\ pc = "done"
    /\ args.vector_query = <<"e", ":", "(", "[", "]", ")">>
    /\ args.alpha = 7
    /\ DictGet(calls[1].params, "vector_query", <<>>) = args.vector_query

\* C23: in the alpha-derived vector query k is 5 times the per_page of the
\* same parameter set (the per_page sent to the gateway), for every requested
\* per_page, those above 250 included.
VectorQueryKFollowsSentPerPage ==
    AlphaDerivationCase =>
        Contains(DictGet(calls[1].params, "vector_query", <<>>),
                 <<"k", ":">>
                    \o IntToChars(5 * DictGet(calls[1].params, "per_page", 0))
                    \o <<",">>)

FacetTools == {"hybrid_search", "keyword_search", "natural_language_search"}

\* C25: in the parameters hybrid_search, keyword_search and
\* natural_language_search send, facet_by is present exactly when
\* max_facet_values is present.
FacetPairTogether ==
    (op \in FacetTools /\ Len(calls) = 1) =>
        (DictHas(calls[1].params, "facet_by")
            <=> DictHas(calls[1].params, "max_facet_values"))

GroupTools == {"hybrid_search", "keyword_search", "rag_hybrid_chunk_search"}

\* the caller's group field: rag_hybrid_chunk_search calls it group_by_doc
GroupArgument ==
    IF op = "rag_hybrid_chunk_search" THEN args.group_by_doc ELSE args.group_by

\* C26: in the parameters hybrid_search, keyword_search and
\* rag_hybrid_chunk_search send, group_by is present exactly when group_limit
\* is, and both are present exactly when the caller's group field is not
\* empty; they carry the caller's values.
GroupPairTogether ==
    (op \in GroupTools /\ Len(calls) = 1) =>
        LET params == calls[1].params
        IN  /\ DictHas(params, "group_by") <=> DictHas(params, "group_limit")
            /\ DictHas(params, "group_by") <=> GroupArgument # ""
            /\ DictHas(params, "group_by") =>
                  /\ DictGet(params, "group_by", "") = GroupArgument
                  /\ DictGet(params, "group_limit", -1) = args.group_limit

GroupedChunkSearchCall ==
    /\ op = "rag_hybrid_chunk_search"
    /\ pc = "done"
    /\ args.group_by_doc = "x"
    /\ DictGet(calls[1].params, "group_by", "") = "x"
    /\ DictGet(calls[1].params, "group_limit", -1) = 5

QueryByTools == {"hybrid_search", "keyword_search", "rag_hybrid_chunk_search",
                 "rag_search_and_retrieve_chunks"}

RaisedByGateway ==
    /\ pc = "raised"
    /\ replies # <<>>
    /\ out = replies[Len(replies)]

\* C13: with an empty query_by the four tools signal a validation error and
\* call the gateway not at all; with any other input building the
\* parameters never raises (an error can only come back from the gateway).
EmptyQueryByRejected ==
    op \in QueryByTools =>
        IF args.query_by = <<>>
        THEN pc = "raised" /\ calls = <<>>
        ELSE pc = "raised" => RaisedByGateway

FormatterTools == {"hybrid_search", "keyword_search", "natural_language_search"}

BothHitLists(shaped) == DictHas(shaped, "grouped_hits") /\ DictHas(shaped, "hits")

\* C14: no output of _format_search_result carries both grouped_hits and
\* hits; a response with grouped hits is shaped with grouped_hits and
\* without hits.
GroupedAndFlatExclusive ==
    /\ (pc = "done" /\ op \in FormatterTools) =>
          /\ ~BothHitLists(out)
          /\ Truthy(DictGet(Payload(result), "grouped_hits", None)) =>
                DictHas(out, "grouped_hits") /\ ~DictHas(out, "hits")
    /\ (pc = "done" /\ op = "multi_search") =>
          \A i \in 1..Len(DictGet(out, "results", <<>>)) :
              ~BothHitLists(DictGet(out, "results", <<>>)[i])

ConditionalHitKeys ==
    {"text_match_info", "vector_distance", "highlights", "hybrid_search_info"}

\* a formatted hit against the raw hit it was made from
FaithfulHit(raw, shaped) ==
    /\ DictHas(shaped, "document")
    /\ DictHas(Payload(raw), "document") =>
          DictGet(shaped, "document", None) = DictGet(Payload(raw), "document", None)
    /\ \A i \in 1..Len(shaped) :
          shaped[i][1] \in ConditionalHitKeys \cup {"document"}
    /\ \A key \in ConditionalHitKeys :
          DictHas(shaped, key) =>
              /\ DictHas(Payload(raw), key)
              /\ DictGet(shaped, key, None) = DictGet(Payload(raw), key, None)

\* C27: every formatted hit has the document of its raw hit, and has
\* text_match_info, vector_distance, highlights or hybrid_search_info only
\* when the raw hit has that key, with the raw value unchanged.
HitsFormattedFaithfully ==
    (pc = "done" /\ op \in FormatterTools) =>
        LET raw == ResultHits(result)
            shaped == DictGet(out, "hits", <<>>)
        IN  /\ DictHas(out, "hits")
            /\ Len(shaped) = Len(raw)
            /\ \A i \in 1..Len(raw) : FaithfulHit(raw[i], shaped[i])

MixedHitsFormatted ==
    /\ pc = "done"
    /\ op = "keyword_search"
    /\ Len(ResultHits(result)) = 2
    /\ ~DictHas(Payload(ResultHits(result)[1]), "highlights")
    /\ DictHas(Payload(ResultHits(result)[2]), "vector_distance")
    /\ ~DictHas(DictGet(out, "hits", <<>>)[1], "highlights")
    /\ DictHas(DictGet(out, "hits", <<>>)[2], "vector_distance")
    /\ ~DictHas(DictGet(out, "hits", <<>>)[2], "text_match_info")

\* C28: rag_hybrid_chunk_search called with the default rerank argument sends
\* rerank_hybrid_matches = true, keyword_search never sends that key, and
\* rag_hybrid_chunk_search makes exactly one gateway call, a search of the
\* chunks collection.
RerankForcedInChunkSearch ==
    /\ op = "rag_hybrid_chunk_search" =>
          /\ Len(calls) = 1
          /\ calls[1].method = "search"
          /\ calls[1].collection = "chunks"
          /\ args.rerank_hybrid_matches = DefaultRerankHybridMatches =>
                /\ DictHas(calls[1].params, "rerank_hybrid_matches")
                /\ DictGet(calls[1].params, "rerank_hybrid_matches", FALSE) = TRUE
    /\ op = "keyword_search" =>
          \A i \in 1..Len(calls) :
              ~DictHas(calls[i].params, "rerank_hybrid_matches")

ChunkSearchWithDefaultRerank ==
    /\ op = "rag_hybrid_chunk_search"
    /\ pc = "done"
    /\ args.rerank_hybrid_matches = DefaultRerankHybridMatches
    /\ args.group_by_doc = ""
    /\ Len(calls) = 1
    /\ DictGet(calls[1].params, "rerank_hybrid_matches", FALSE) = TRUE
    /\ Len(DictGet(out, "chunks", <<>>)) = 2

\* the sub-responses of the multi_search reply
RawSubResponses == Payload(DictGet(Payload(result), "results", L(<<>>)))

\* C29: multi_search returns as many formatted results as the gateway gave
\* sub-responses, the i-th (from 0) with search_index = i and the rest being
\* the i-th sub-response formatted, and it has called the gateway exactly
\* once, with all the searches.
MultiSearchMirrorsOrder ==
    (op = "multi_search" /\ IsJson(args.searches_json)) =>
        /\ Len(calls) = 1
        /\ calls[1].method = "multi_search"
        /\ calls[1].searches = JsonLoads(args.searches_json)
        /\ pc = "done" =>
              LET subs == RawSubResponses
                  shaped == DictGet(out, "results", <<>>)
              IN  /\ Len(shaped) = Len(subs)
                  /\ \A i \in 1..Len(subs) :
                        /\ shaped[i][1] = <<"search_index", i - 1>>
                        /\ Tail(shaped[i]) = FormatSearchResult(subs[i])
                        /\ DictGet(shaped[i], "found", None) =
                              DictGet(Payload(subs[i]), "found", I(0))

TwoDifferentSubResponses ==
    /\ op = "multi_search"
    /\ pc = "done"
    /\ Len(calls) = 1
    /\ Len(calls[1].searches) = 2
    /\ RawSubResponses[1] = D(<<>>)
    /\ DictHas(Payload(RawSubResponses[2]), "hits")
    /\ DictGet(DictGet(out, "results", <<>>)[1], "found", None) = I(0)
    /\ DictGet(DictGet(out, "results", <<>>)[2], "found", None) = I(1)

JsonTools == JsonWriteTools \cup {"multi_search", "import_documents"}

JsonArgumentOf(tool) ==
    CASE tool = "multi_search" -> "searches_json"
      [] tool = "import_documents" -> "documents_json"
      [] OTHER -> JsonArgument(tool)

\* C15: a tool given a JSON argument that does not parse raises the parse
\* error having made no gateway call (and not having touched the client),
\* and a parse error is never raised after a gateway call.
JsonErrorBeforeGateway ==
    /\ (op \in JsonTools /\ ~IsJson(args[JsonArgumentOf(op)])) =>
          /\ pc = "raised"
          /\ out = Raise("JSONDecodeError")
          /\ calls = <<>>
          /\ replies = <<>>
          /\ client = ClientUnset
    /\ out = Raise("JSONDecodeError") => calls = <<>>

MalformedSchemaRaised ==
    /\ op = "create_collection"
    /\ args.schema_json = BadJson
    /\ pc = "raised"
    /\ calls = <<>>

\* a per-record import result that reports success = false, as a dict or as
\* the JSON text of one
ReportsFailure(r) ==
    \/ Tag(r) = "dict" /\ <<"success", B(FALSE)>> \in
            {Payload(r)[i] : i \in 1..Len(Payload(r))}
    \/ Tag(r) = "str" /\ IsJson(Payload(r)) /\ <<"success", B(FALSE)>> \in
            {Payload(Payload(r)[2])[i] : i \in 1..Len(Payload(Payload(r)[2]))}

\* C30: import_documents gives every per-record result reporting success =
\* false exactly one failures entry, with that record's index, counts every
\* other record as a success, and so successes + len(failures) is the number
\* of per-record results.
ImportFailuresItemized ==
    (op = "import_documents" /\ pc = "done") =>
        LET results == Payload(result)
            failures == DictGet(out, "failures", <<>>)
            successes == DictGet(out, "successes", -1)
            failed == {i \in 1..Len(results) : ReportsFailure(results[i])}
        IN  /\ \A i \in 1..Len(results) :
                  Cardinality({k \in 1..Len(failures) :
                      DictGet(failures[k], "index", -1) = i - 1}) =
                          IF i \in failed THEN 1 ELSE 0
            /\ Len(failures) = Cardinality(failed)
            /\ successes = Len(results) - Cardinality(failed)
            /\ successes + Len(failures) = Len(results)

SecondRecordFailedAsText ==
    /\ op = "import_documents"
    /\ pc = "done"
    /\ Len(Payload(result)) = 2
    /\ ~ReportsFailure(Payload(result)[1])
    /\ Tag(Payload(result)[2]) = "str"
    /\ ReportsFailure(Payload(result)[2])
    /\ DictGet(out, "successes", -1) = 1
    /\ Len(DictGet(out, "failures", <<>>)) = 1
    /\ DictGet(DictGet(out, "failures", <<>>)[1], "index", -1) = 1

(***************************************************************************)
(* Properties of the gateway traffic of rag_search_and_retrieve_chunks.    *)
(***************************************************************************)
CallsTo(collection) ==
    Cardinality({i \in 1..Len(calls) : calls[i].collection = collection})

\* C16: a gateway failure in rag_search_and_retrieve_chunks reaches the
\* caller as raised, without a retry: after a failed metadata query no chunk
\* query is issued, after a failed chunk query no result is returned, and
\* each stage is called at most once.
RagFailurePropagates ==
    RagOp =>
        /\ CallsTo("metadata") <= 1
        /\ CallsTo("chunks") <= 1
        /\ (replies # <<>> /\ replies[Len(replies)] \in
                {Raise(e) : e \in GatewayErrors}) =>
              /\ pc = "raised"
              /\ out = replies[Len(replies)]
              /\ Len(calls) = Len(replies)
              /\ Len(replies) = 1 => CallsTo("chunks") = 0
        /\ pc = "raised" => RaisedByGateway

ChunkQueryFailed ==
    /\ RagOp
    /\ pc = "raised"
    /\ Len(calls) = 2
    /\ Len(doc_ids) = 2
    /\ out = Raise("Timeout")

\* C24: the chunk query has q = "*", query_by = the chunk content field,
\* filter_by = the filter built from the linked ids, and per_page =
\* min(chunks_per_doc * n, 250) where n counts every metadata hit that gave a
\* link value (repeated values counted each time).
ChunkQueryParameters ==
    (RagOp /\ Len(calls) = 2) =>
        LET params == calls[2].params
        IN  /\ calls[2].method = "search"
            /\ DictHas(params, "q") /\ DictGet(params, "q", "") = "*"
            /\ DictGet(params, "query_by", <<>>) = args.chunk_content_field
            /\ DictHas(params, "filter_by")
            /\ DictGet(params, "filter_by", <<>>) = chunk_filter
            /\ chunk_filter =
                  ChunkFilter(args.doc_id_field, LinkedIds, args.chunks_filter_by)
            /\ DictGet(params, "per_page", -1) =
                  Min(args.chunks_per_doc * Cardinality(LinkedIndexes), 250)

ChunkQueryForRepeatedLink ==
    /\ RagOp
    /\ Len(calls) = 2
    /\ Cardinality(LinkedIndexes) = 2
    /\ LinkedIds[1] = LinkedIds[2]
    /\ args.chunks_per_doc = 100
    /\ DictGet(calls[2].params, "per_page", -1) = 200

\* C17: the state shared by the invocations (the TypesenseClientManager the
\* tools hold) keeps the value it had before the first invocation.
SharedStateUntouched == client = ClientUnset

\* C18: an invocation that reaches the join has called the gateway exactly
\* twice, the metadata query and then one chunk query issued after the
\* metadata response arrived, however many documents matched; no invocation
\* calls it more than twice.
JoinCallsGatewayTwice ==
    RagOp =>
        /\ Len(calls) <= 2
        /\ Len(calls) >= 1 => calls[1].collection = "metadata"
        /\ (replies # <<>> /\ meta_result = replies[1] /\ LinkedIndexes # {}) =>
              /\ Len(calls) = 2
              /\ calls[2].collection = "chunks"
        /\ Len(calls) > 1 => (replies # <<>> /\ meta_result = replies[1])

JoinOfThreeDocuments ==
    /\ RagReturned
    /\ Cardinality(LinkedIndexes) = 3
    /\ Len(calls) = 2
    /\ Len(replies) = 2

RawChunkHits == ResultHits(chunks_result)

\* positions of the chunk hits whose link value, as a string, is the id
ChunkHitsOf(id) ==
    SelectSeq([i \in 1..Len(RawChunkHits) |-> i],
              LAMBDA i : ChunkLink(RawChunkHits[i], args.doc_id_field) = id)

\* C20: every chunk hit is returned at most once, under the entry of its own
\* link value and nowhere else, so that total_chunks does not exceed the
\* number of chunk hits - also when two metadata hits share a link value.
ChunkHitsReturnedOnce ==
    (RagReturned /\ LinkedIndexes # {}) =>
        /\ \A k \in 1..Len(OutResults) :
              LET own == ChunkHitsOf(EntryId(OutResults[k]))
              IN  EntryChunks(OutResults[k]) =
                     [j \in 1..Len(own) |->
                         CleanChunk(HitDocument(RawChunkHits[own[j]]))]
        /\ \A i \in 1..Len(RawChunkHits) :
              Cardinality({k \in 1..Len(OutResults) :
                  EntryId(OutResults[k]) =
                      ChunkLink(RawChunkHits[i], args.doc_id_field)}) <= 1
        /\ DictGet(out, "total_chunks", -1) <= Len(RawChunkHits)

(***************************************************************************)
(* Properties of concurrent invocations.                                   *)
(***************************************************************************)
\* what an invocation given a returns when the gateway answers it with
\* the replies in answers and nothing else runs
RagAlone(a, answers) ==
    LET hits == ResultHits(answers[1])
        ids == ExtractDocIds(hits, a.doc_id_field)
        metadata == StoreMetadata(<<>>, hits, a.doc_id_field, a.include_metadata)
        outcome == MetaOutcome(hits, ids)
    IN  CASE outcome = "no_hits" -> NoHitsOutput
          [] outcome = "no_link" -> NoLinkOutput(hits)
          [] outcome = "join" ->
                JoinOutput(BuildResults(ids, a.include_metadata, metadata,
                    ChunksByDoc(ids, ResultHits(answers[2]), a.doc_id_field)))

OwnChunkFilter(i) ==
    LET a == invocations[i].given
    IN  ChunkFilter(a.doc_id_field,
            ExtractDocIds(ResultHits(invocations[i].answers[1]), a.doc_id_field),
            a.chunks_filter_by)

\* C19: of invocations interleaved at their gateway calls, each sends a chunk
\* filter built from the linked ids of its own metadata response and returns
\* what it returns when run alone with the same two responses.
ConcurrentRunsIndependent ==
    \A i \in Invocations :
        /\ Len(invocations[i].calls) = 2 =>
              DictGet(invocations[i].calls[2].params, "filter_by", <<>>) =
                  OwnChunkFilter(i)
        /\ invocations[i].pc = "done" =>
              invocations[i].returned =
                  RagAlone(invocations[i].given, invocations[i].answers)

TwoJoinsInFlight ==
    /\ invocations[1].pc = "chunk_query"
    /\ invocations[2].pc = "chunk_query"
    /\ invocations[1].given # invocations[2].given
    /\ invocations[1].answers # invocations[2].answers
    /\ DictGet(invocations[1].calls[2].params, "filter_by", <<>>) #
          DictGet(invocations[2].calls[2].params, "filter_by", <<>>)

====
